---- MODULE Spec2Model ----
(***************************************************************************)
(* Saitek FIP LCD driver (src/devices/saitek_fip_lcd.rs): the Device       *)
(* Handle (UsbSaitekFipLcd), its protected slot `int`, the Session         *)
(* (UsbSaitekFipLcdInt) with its transaction lock `vendor_if_mutex`, the   *)
(* Lifecycle Thread (_thread_target) and caller threads invoking the       *)
(* ManagedDisplay operations.                                              *)
(***************************************************************************)
EXTENDS Integers, Sequences, FiniteSets, TLC

(* ------------------------------ bounds --------------------------------- *)

\* number of caller threads that invoke public operations concurrently
NumCallers == 2

(* --------------------------- program constants ------------------------- *)

\* enum Request
FolderRemoved == 2

SaveFile == 3

SetImageFile == 4

SetImage == 6

DeleteFile == 7

StartServer == 9

SomeFactoryModeRequest == 10

ClearImage == 19

SetLed == 24

\* mem::size_of::<ControlPacket>(): eleven BEU32 fields
ControlPacketSize == 44

\* set_image_data's data: &[u8; 0x38400]
ImageSize == 230400

\* the cap of _read: 512 * 1024
MaxDataSize == 512 * 1024

(* ------------------------------ threads -------------------------------- *)

Callers == 1..NumCallers

\* the Lifecycle Thread spawned by new_from_libusb
LT == 0

\* no thread holds the lock
NoOne == -1

(* --------------------------- ControlPacket ----------------------------- *)

\* ControlPacket::new
ControlPacket_new(request) ==
  [server_id |-> 0, page |-> 0, data_size |-> 0, header_error |-> 0,
   header_info |-> 0, request |-> request, param_1 |-> 0, param_2 |-> 0,
   param_3 |-> 0, request_error |-> 0, request_info |-> 0]

\* a set_data_size that leaves the field as it is
set_data_size_Unset(packet, value) == packet

\* ControlPacket::set_data_size: (value as u32).into(); the lengths of this
\* model stay below 2^31, where the cast keeps the value
set_data_size(packet, value) == [packet EXCEPT !.data_size = value]

\* has_error with ">=" written for ">"
has_error_AlwaysTrue(packet) == packet.header_error >= 0 \/ packet.request_error >= 0

\* has_error that forgets the request_error field
has_error_HeaderOnly(packet) == packet.header_error > 0

\* ControlPacket::has_error
has_error(packet) == packet.header_error > 0 \/ packet.request_error > 0

\* enum Request: the catalogue of opcodes
Catalogue ==
  {FolderRemoved, SaveFile, SetImageFile, SetImage, DeleteFile, StartServer,
   SomeFactoryModeRequest, ClearImage, SetLed}

\* ControlPacket::set_page: the u8 widened to the 32-bit field
set_page(p, value) == [p EXCEPT !.page = value]

\* ControlPacket::set_param_1 .. set_param_3
set_params(p, v1, v2, v3) == [p EXCEPT !.param_1 = v1, !.param_2 = v2, !.param_3 = v3]

\* ControlPacket::set_header_error, set_request_error
set_errors(p, he, re) == [p EXCEPT !.header_error = he, !.request_error = re]

\* ControlPacket::set_server_id, set_header_info, set_request_info
set_infos(p, sid, hi, ri) ==
  [p EXCEPT !.server_id = sid, !.header_info = hi, !.request_info = ri]

\* ControlPacket::request: Request::try_from(self.request.get()); Err carries
\* the number that is not in the catalogue
request(p) == [ok |-> p.request \in Catalogue, number |-> p.request]

\* ControlPacket::page: self.page.get().try_into().expect("Got invalid `page`")
page(p) == IF p.page <= 255 THEN [ok |-> TRUE, value |-> p.page]
                            ELSE [ok |-> FALSE, value |-> 0]

\* a U32 stored with the least significant byte first
BEU32_into_LittleEndian(v) ==
  <<v % 256, (v \div 256) % 256, (v \div 65536) % 256, v \div 16777216>>

\* zerocopy U32<BigEndian>::from(u32): the four bytes, most significant first
BEU32_into(v) ==
  <<v \div 16777216, (v \div 65536) % 256, (v \div 256) % 256, v % 256>>

\* zerocopy U32<BigEndian>::get: the number of four big-endian bytes
BEU32_get(b) == ((b[1] * 256 + b[2]) * 256 + b[3]) * 256 + b[4]

\* AsBytes for the #[repr(C)] struct: the eleven fields in declaration order
as_bytes(p) ==
  BEU32_into(p.server_id) \o BEU32_into(p.page) \o BEU32_into(p.data_size)
    \o BEU32_into(p.header_error) \o BEU32_into(p.header_info)
    \o BEU32_into(p.request) \o BEU32_into(p.param_1) \o BEU32_into(p.param_2)
    \o BEU32_into(p.param_3) \o BEU32_into(p.request_error)
    \o BEU32_into(p.request_info)

\* the k-th field (from 0) of a buffer of 44 bytes
FieldAt(bytes, k) == BEU32_get(SubSeq(bytes, 4 * k + 1, 4 * k + 4))

\* FromBytes::read_from: None unless the buffer has the size of the struct
read_from(bytes) ==
  IF Len(bytes) # ControlPacketSize THEN <<>>
  ELSE <<[server_id |-> FieldAt(bytes, 0), page |-> FieldAt(bytes, 1),
          data_size |-> FieldAt(bytes, 2), header_error |-> FieldAt(bytes, 3),
          header_info |-> FieldAt(bytes, 4), request |-> FieldAt(bytes, 5),
          param_1 |-> FieldAt(bytes, 6), param_2 |-> FieldAt(bytes, 7),
          param_3 |-> FieldAt(bytes, 8), request_error |-> FieldAt(bytes, 9),
          request_info |-> FieldAt(bytes, 10)]>>

(* ------------------------- Transport Adapter --------------------------- *)

\* rusb::Error values a transfer can fail with
TransportErrors == {"Timeout", "NoDevice"}

\* byte counts a transfer over a buffer of len bytes can report
Counts(len) == {k \in {0, len - 1, len} : k >= 0}

\* DeviceHandlerWrapper::write_bulk: Result<usize, rusb::Error>
write_bulk(len) ==
  {[ok |-> TRUE, n |-> k, err |-> ""] : k \in Counts(len)}
    \cup {[ok |-> FALSE, n |-> 0, err |-> e] : e \in TransportErrors}

\* DeviceHandlerWrapper::read_bulk: at most buf.len() bytes are read
read_bulk(len) ==
  {[ok |-> TRUE, n |-> k, err |-> ""] : k \in Counts(len)}
    \cup {[ok |-> FALSE, n |-> 0, err |-> e] : e \in TransportErrors}

\* DeviceHandlerWrapper::read_hid: the outcome of one report read
read_hid == {"Ok", "Timeout", "NoDevice", "Pipe"}

\* non-zero data sizes a response packet of the device may declare
ResponseSizes == {MaxDataSize - 1, MaxDataSize, MaxDataSize + 1}

\* the 44-byte packets the device may answer with: every combination of the
\* error fields without a payload, and the payload sizes around the cap
ResponsePackets ==
  {[ControlPacket_new(0) EXCEPT !.header_error = he, !.request_error = re] :
     he \in {0, 1}, re \in {0, 1}}
    \cup {[ControlPacket_new(0) EXCEPT !.data_size = ds] : ds \in ResponseSizes}

(* --------------------------- public operations ------------------------- *)

Pages == {1}

Indexes == {2}

Files == {3}

\* a byte slice is kept as its runs, in order: [n |-> k, b |-> x] stands
\* for k bytes of value x in a row
Run(k, x) == [n |-> k, b |-> x]

\* slice.len()
RECURSIVE SliceLen(_)
SliceLen(s) == IF s = <<>> THEN 0 ELSE s[1].n + SliceLen(Tail(s))

\* the image handed to set_image_data, an array of ImageSize bytes
Images == {<<Run(ImageSize, 0)>>}

\* the byte sources handed to save_file (data: &mut dyn Read): the bytes a
\* source gives, and whether a read of it fails after them
Sources ==
  {[err |-> FALSE, bytes |-> b] :
     b \in {<<>>, <<Run(1, 9), Run(1, 7)>>}}
    \cup {[err |-> TRUE, bytes |-> <<Run(1, 7)>>]}

NoSource == [err |-> FALSE, bytes |-> <<>>]

\* data.read_to_end(&mut buffer): the bytes read are appended to the
\* buffer, and the Result is Err when a read fails
read_to_end(src) == [ok |-> ~src.err, buffer |-> src.bytes]

NoOp ==
  [kind |-> "none", page |-> 0, index |-> 0, arg |-> 0, data |-> <<>>,
   src |-> NoSource]

\* the calls of the ManagedDisplay trait a caller can make
Ops ==
  {[NoOp EXCEPT !.kind = k] : k \in {"ready", "serial_number", "device_type_uuid"}}
    \cup {[NoOp EXCEPT !.kind = "set_image_data", !.page = p, !.data = d] :
            p \in Pages, d \in Images}
    \cup {[NoOp EXCEPT !.kind = "set_led", !.page = p, !.index = i, !.arg = v] :
            p \in Pages, i \in Indexes, v \in {1}}
    \cup {[NoOp EXCEPT !.kind = "clear_image", !.page = p] : p \in Pages}
    \cup {[NoOp EXCEPT !.kind = "save_file", !.page = p, !.arg = f, !.src = s] :
            p \in Pages, f \in Files, s \in Sources}
    \cup {[NoOp EXCEPT !.kind = "display_file", !.page = p, !.index = i, !.arg = f] :
            p \in Pages, i \in Indexes, f \in Files}
    \cup {[NoOp EXCEPT !.kind = "delete_file", !.page = p, !.arg = f] :
            p \in Pages, f \in Files}

\* the operations that go through transmit
Transmitting ==
  {"set_image_data", "set_led", "clear_image", "save_file", "display_file",
   "delete_file"}

\* the packet each operation builds before it calls transmit
PacketOf(o) ==
  CASE o.kind = "set_image_data" ->
         set_data_size([ControlPacket_new(SetImage) EXCEPT !.page = o.page],
                       SliceLen(o.data))
    [] o.kind = "set_led" ->
         [ControlPacket_new(SetLed) EXCEPT
            !.param_1 = o.page, !.param_2 = o.index, !.param_3 = o.arg]
    [] o.kind = "clear_image" ->
         [ControlPacket_new(ClearImage) EXCEPT !.page = o.page]
    [] o.kind = "save_file" ->
         set_data_size([ControlPacket_new(SaveFile) EXCEPT
                          !.param_1 = o.page, !.param_3 = o.arg],
                       SliceLen(read_to_end(o.src).buffer))
    [] o.kind = "display_file" ->
         [ControlPacket_new(SaveFile) EXCEPT
            !.param_1 = o.page, !.param_2 = o.index, !.param_3 = o.arg]
    [] o.kind = "delete_file" ->
         [ControlPacket_new(SaveFile) EXCEPT !.param_1 = o.page, !.param_3 = o.arg]
    [] OTHER -> ControlPacket_new(0)

\* a payload of the right length whose bytes are all zero
DataOf_Zeroed(o) ==
  CASE o.kind = "set_image_data" -> <<<<Run(SliceLen(o.data), 0)>>>>
    [] o.kind = "save_file" ->
         <<IF SliceLen(read_to_end(o.src).buffer) = 0 THEN <<>>
           ELSE <<Run(SliceLen(read_to_end(o.src).buffer), 0)>>>>
    [] OTHER -> <<>>

\* the `data` argument of transmit: <<>> is None, <<slice>> is Some(slice):
\* Some(data) in set_image_data, Some(buffer.as_slice()) in save_file
DataOf(o) ==
  CASE o.kind = "set_image_data" -> <<o.data>>
    [] o.kind = "save_file" -> <<read_to_end(o.src).buffer>>
    [] OTHER -> <<>>

\* data.unwrap_or(&[]).len()
DataLen(data) == IF data = <<>> THEN 0 ELSE SliceLen(data[1])

(* --------------------------- Session: transact ------------------------- *)

\* Mutex::lock that does not wait for the holder
MutexFree_NoWait(m) == TRUE

\* vendor_if_mutex.lock() returns only once no other thread holds the mutex;
\* the result (also a poisoned one) is kept in `mutex`, so a poisoned mutex is
\* locked like a healthy one
MutexFree(m) == m = NoOne

\* a guard that is released on the successful path only
GuardDrop_LeakOnError(m, t) == IF t = "ok" THEN NoOne ELSE m

\* the guard `mutex` of transcieve is dropped when transcieve returns (`?`
\* included) or unwinds
GuardDrop(m, t) == NoOne

\* _write, the check of the payload length against the packet
SizeMismatch(packet, data) == DataLen(data) # packet.data_size

\* _write, one write_bulk of len bytes: a short write is Error::Other
WriteResult(r, len) ==
  IF ~r.ok THEN r.err ELSE IF r.n # len THEN "Other" ELSE "ok"

\* _read, the read of the 44-byte packet
ReadPacketResult(r) ==
  IF ~r.ok THEN r.err ELSE IF r.n # ControlPacketSize THEN "Other" ELSE "ok"

\* the cap with ">" written for ">="
TooBig_Exclusive(size) == size > MaxDataSize

\* _read: control_packet.data_size() >= 512 * 1024
TooBig(size) == size >= MaxDataSize

\* _read: Vec::with_capacity(size) is a vector of length 0, and read_bulk
\* is handed its (empty) slice
PayloadBufferLen(size) == 0

\* _read, the read of the payload
ReadDataResult(r, size) ==
  IF ~r.ok THEN r.err ELSE IF r.n = size THEN "ok" ELSE "Other"

\* the Result<(), ()> of an operation, from the result of transmit
OutcomeOf(t, packet) ==
  IF t = "panic" THEN "panic"
  ELSE IF t # "ok" THEN "Err"
  ELSE IF has_error(packet[1]) THEN "Err" ELSE "Ok"

(* -------------------------------- state -------------------------------- *)

VARIABLES
  registry,         \* the owner of the Arc returned by new_from_libusb holds it
  int,              \* UsbSaitekFipLcd.int, the slot: "None" or "Some"
  rw_readers,       \* threads that hold a read guard of the slot's RwLock
  vendor_if_mutex,  \* the thread that holds the Session's mutex, or NoOne
  lt_pc,            \* position of the Lifecycle Thread in _thread_target
  device,           \* _thread_target holds the Arc of line 404
  loop_device,      \* _thread_target holds the Arc of the loop (line 431)
  new_err,          \* the Err of UsbSaitekFipLcdInt::new that the match is handling, or "none"
  response,         \* the response of the factory-mode probe: <<>> or <<packet>>
  hid,              \* the Err of the read_hid of this iteration, or "none"
  pc,               \* position of each caller thread
  op,               \* the operation each caller is in
  sent,             \* the payload bytes the device has taken in each caller's transaction
  resp,             \* control_packet of _read in each caller: <<>> or <<packet>>
  txres,            \* what transmit came to in each caller
  outcome,          \* what the operation returned to each caller
  packet,           \* codec: the ControlPacket built by the sender: <<>> or <<packet>>
  wire,             \* codec: the 44 bytes on the wire, or <<>>
  decoded,          \* codec: what ControlPacket::read_from made of the bytes: <<>> or <<packet>>
  hid_buffer,       \* report: the two bytes read_hid filled in
  buttons,          \* report: the Buttons made of hid_buffer: <<>> or <<bits>>
  state,            \* libfip: the Option in the static STATE: "None" or "Some"
  state_lock,       \* libfip: the thread that holds the guard of STATE, or NoOne
  poisoned,         \* libfip: a thread panicked while it held the guard of STATE
  logger,           \* libfip: the process has a global logger installed
  process,          \* libfip: "running", or "aborted" by a panic at the ABI boundary
  displays,         \* libfip: the addresses devices::State knows a display for
  handlers,         \* libfip: the number of hot-plug handlers devices::State holds
  shim_pc,          \* libfip: where each host thread is in its entry point
  entry,            \* libfip: the entry point each host thread is in, with its arguments
  hresult,          \* libfip: the HRESULT of the latest return of an entry point, or "none"
  todo,             \* libfip: the addresses for_each of Enumerate has yet to visit
  cb_seq,           \* libfip: the device pointers Enumerate handed to the callback so far
  serial            \* libfip: the serial-number string of the display's USB device, or "none"

coreVars ==
  <<registry, int, rw_readers, vendor_if_mutex, lt_pc, device, loop_device,
    new_err, response, hid, pc, op, sent, resp, txres, outcome>>

codecVars == <<packet, wire, decoded>>

buttonVars == <<hid_buffer, buttons>>

shimVars ==
  <<state, state_lock, poisoned, logger, process, displays, handlers, shim_pc,
    entry, hresult, todo, cb_seq, serial>>

\* the state the device threads and the callers do not touch
auxVars == <<codecVars, buttonVars, shimVars>>

vars == <<coreVars, auxVars>>

ltVars == <<lt_pc, device, loop_device, new_err, response, hid>>

callerVars == <<pc, op, sent, resp, txres, outcome>>

\* new_from_libusb: the slot is Arc::default() (None), the thread is spawned
\* with the Weak, the Arc is returned to the registry
CoreInit ==
  /\ registry = TRUE
  /\ int = "None"
  /\ rw_readers = {}
  /\ vendor_if_mutex = NoOne
  /\ lt_pc = "start"
  /\ device = FALSE
  /\ loop_device = FALSE
  /\ new_err = "none"
  /\ response = <<>>
  /\ hid = "none"
  /\ pc = [c \in Callers |-> "idle"]
  /\ op = [c \in Callers |-> NoOp]
  /\ sent = [c \in Callers |-> <<>>]
  /\ resp = [c \in Callers |-> <<>>]
  /\ txres = [c \in Callers |-> "none"]
  /\ outcome = [c \in Callers |-> "none"]

\* no packet is being encoded or decoded
CodecIdle == packet = <<>> /\ wire = <<>> /\ decoded = <<>>

\* let mut hid_buffer: [u8; 2] = [0, 0]; nothing decoded
ButtonsIdle == hid_buffer = <<0, 0>> /\ buttons = <<>>

\* the address of the display whose Device Handle the variables above are
TheDisplay == <<1, 2>>

NoEntry == [name |-> "none", ptr |-> 0, args |-> "ok"]

\* the library after a DirectOutput_Initialize that found the display, with
\* no host thread inside an entry point
ShimIdle ==
  /\ state = "Some"
  /\ state_lock = NoOne
  /\ poisoned = FALSE
  /\ logger = TRUE
  /\ process = "running"
  /\ displays = {TheDisplay}
  /\ handlers = 0
  /\ shim_pc = [c \in Callers |-> "out"]
  /\ entry = [c \in Callers |-> NoEntry]
  /\ hresult = "none"
  /\ todo = [c \in Callers |-> {}]
  /\ cb_seq = [c \in Callers |-> <<>>]
  /\ serial = "plain"

Init == CoreInit /\ CodecIdle /\ ButtonsIdle /\ ShimIdle

\* a caller inside an operation holds an Arc of the Device Handle
InCall(c) == pc[c] \notin {"idle", "done", "panicked"}

\* Weak::upgrade succeeds while some Arc of the Device Handle is alive
upgrade == registry \/ device \/ loop_device \/ \E c \in Callers : InCall(c)

\* RwLock::read of the slot's lock (self.int.read()): the lock of std
\* prefers writers, so from the moment the Lifecycle Thread waits in
\* device.int.write() every new read() waits behind it; the write is never
\* granted, and the read never returns.  Guards taken before stay valid
ReadWaits == lt_pc = "deadlocked"

\* ManagedDisplay::ready: self.int.read().is_ok_and(|int| int.is_some()).
\* "blocks" stands for a call that never returns.  The lock is never
\* poisoned (no thread panics while it holds the write guard), so a read()
\* that returns is Ok and the answer is is_some() of the slot
ready ==
  IF ReadWaits THEN "blocks" ELSE IF int = "Some" THEN "true" ELSE "false"

(* --------------------------- caller threads ---------------------------- *)

\* a transmit that empties the slot when the transaction failed
Return_Invalidate(c, t, rp) ==
  /\ txres' = [txres EXCEPT ![c] = t]
  /\ resp' = [resp EXCEPT ![c] = rp]
  /\ outcome' = [outcome EXCEPT ![c] = OutcomeOf(t, rp)]
  /\ pc' = [pc EXCEPT ![c] = IF t = "panic" THEN "panicked" ELSE "done"]
  /\ vendor_if_mutex' = GuardDrop(vendor_if_mutex, t)
  /\ rw_readers' = rw_readers \ {c}
  /\ op' = [op EXCEPT ![c] = NoOp]
  /\ sent' = [sent EXCEPT ![c] = <<>>]
  /\ int' = IF t = "ok" THEN int ELSE "None"

\* transmit returns t (or unwinds, t = "panic") to the operation of caller c
\* with control_packet rp in hand; the guards of transcieve and transmit are
\* dropped and the operation maps the result to its Result<(), ()>.  The slot
\* is not written.
Return(c, t, rp) ==
  /\ txres' = [txres EXCEPT ![c] = t]
  /\ resp' = [resp EXCEPT ![c] = rp]
  /\ outcome' = [outcome EXCEPT ![c] = OutcomeOf(t, rp)]
  /\ pc' = [pc EXCEPT ![c] = IF t = "panic" THEN "panicked" ELSE "done"]
  /\ vendor_if_mutex' = GuardDrop(vendor_if_mutex, t)
  /\ rw_readers' = rw_readers \ {c}
  /\ op' = [op EXCEPT ![c] = NoOp]
  /\ sent' = [sent EXCEPT ![c] = <<>>]
  /\ UNCHANGED int

\* a caller thread (one that has not crashed) gets the Device Handle from
\* its owner and invokes operation o.  save_file reads its source first and
\* returns Err(()) when that fails.  Every operation then takes the read side
\* of the slot's lock (self.int.read()); behind a waiting writer the call
\* stays in read() for ever ("blocked").  Otherwise the read side is free
\* whenever this step is taken (the write side is only ever held within one
\* step of the Lifecycle Thread), and the operation looks at the slot under
\* the guard: ready() answers
\* is_some(); every other operation does int_guard.as_ref().expect(..),
\* which panics on an empty slot; serial_number and device_type_uuid return
\* the stored value; the others go on into transcieve with the guard held.
\* `op` holds the arguments of a call that has gone on into transcieve,
\* while the call lasts.
Call(c, o) ==
  /\ pc[c] \in {"idle", "done"}
  /\ registry
  /\ resp' = [resp EXCEPT ![c] = <<>>]
  /\ txres' = [txres EXCEPT ![c] = "none"]
  /\ IF o.kind = "save_file" /\ ~read_to_end(o.src).ok
       THEN /\ outcome' = [outcome EXCEPT ![c] = "Err"]
            /\ pc' = [pc EXCEPT ![c] = "done"]
            /\ UNCHANGED <<op, rw_readers>>
       ELSE IF ReadWaits
       THEN /\ outcome' = [outcome EXCEPT ![c] = "none"]
            /\ pc' = [pc EXCEPT ![c] = "blocked"]
            /\ UNCHANGED <<op, rw_readers>>
       ELSE IF o.kind = "ready"
       THEN /\ outcome' = [outcome EXCEPT ![c] = ready]
            /\ pc' = [pc EXCEPT ![c] = "done"]
            /\ UNCHANGED <<op, rw_readers>>
       ELSE IF int = "None"
       THEN /\ outcome' = [outcome EXCEPT ![c] = "panic"]
            /\ pc' = [pc EXCEPT ![c] = "panicked"]
            /\ UNCHANGED <<op, rw_readers>>
       ELSE IF o.kind \notin Transmitting
       THEN /\ outcome' = [outcome EXCEPT ![c] = "Ok"]
            /\ pc' = [pc EXCEPT ![c] = "done"]
            /\ UNCHANGED <<op, rw_readers>>
       ELSE /\ outcome' = [outcome EXCEPT ![c] = "none"]
            /\ pc' = [pc EXCEPT ![c] = "lock"]
            /\ op' = [op EXCEPT ![c] = o]
            /\ rw_readers' = rw_readers \cup {c}
  /\ UNCHANGED <<registry, int, vendor_if_mutex, ltVars, sent, auxVars>>

\* transcieve: let mutex = self.vendor_if_mutex.lock()
Lock(c) ==
  /\ pc[c] = "lock"
  /\ MutexFree(vendor_if_mutex)
  /\ vendor_if_mutex' = c
  /\ pc' = [pc EXCEPT ![c] = "write_packet"]
  /\ UNCHANGED <<registry, int, rw_readers, ltVars, op, sent, resp, txres, outcome,
                 auxVars>>

\* a _write whose failure is remembered while the transaction goes on to
\* the read
WritePacket_GoesOn(c) ==
  /\ pc[c] = "write_packet"
  /\ \E r \in write_bulk(ControlPacketSize) :
       IF SizeMismatch(PacketOf(op[c]), DataOf(op[c]))
         THEN Return(c, "panic", <<>>)
       ELSE /\ pc' = [pc EXCEPT ![c] = "read_packet"]
            /\ txres' = [txres EXCEPT ![c] =
                           IF WriteResult(r, ControlPacketSize) # "ok"
                             THEN WriteResult(r, ControlPacketSize) ELSE @]
            /\ UNCHANGED <<int, rw_readers, vendor_if_mutex, op, sent, resp, outcome>>
  /\ UNCHANGED <<registry, ltVars, auxVars>>

\* _write: the size check, then the write of the 44-byte packet
WritePacket(c) ==
  /\ pc[c] = "write_packet"
  /\ \E r \in write_bulk(ControlPacketSize) :
       IF SizeMismatch(PacketOf(op[c]), DataOf(op[c]))
         THEN Return(c, "panic", <<>>)
       ELSE IF WriteResult(r, ControlPacketSize) # "ok"
         THEN Return(c, WriteResult(r, ControlPacketSize), <<>>)
       ELSE /\ pc' = [pc EXCEPT ![c] =
                        IF DataLen(DataOf(op[c])) > 0 THEN "write_data"
                                                     ELSE "read_packet"]
            /\ UNCHANGED <<int, rw_readers, vendor_if_mutex, op, sent, resp, txres,
                           outcome>>
  /\ UNCHANGED <<registry, ltVars, auxVars>>

\* _write: the write of a non-empty payload
WriteData(c) ==
  /\ pc[c] = "write_data"
  /\ \E r \in write_bulk(DataLen(DataOf(op[c]))) :
       IF WriteResult(r, DataLen(DataOf(op[c]))) # "ok"
         THEN Return(c, WriteResult(r, DataLen(DataOf(op[c]))), <<>>)
         ELSE /\ pc' = [pc EXCEPT ![c] = "read_packet"]
              /\ sent' = [sent EXCEPT ![c] = DataOf(op[c])[1]]
              /\ UNCHANGED <<int, rw_readers, vendor_if_mutex, op, resp, txres,
                             outcome>>
  /\ UNCHANGED <<registry, ltVars, auxVars>>

\* _read: the read of the response packet and the look at its data size
ReadPacket(c) ==
  /\ pc[c] = "read_packet"
  /\ \E r \in read_bulk(ControlPacketSize) :
       IF ReadPacketResult(r) # "ok"
         THEN Return(c, ReadPacketResult(r), <<>>)
         ELSE \E p \in ResponsePackets :
                IF p.data_size = 0
                  THEN Return(c, "ok", <<p>>)
                ELSE IF TooBig(p.data_size)
                  THEN Return(c, "panic", <<p>>)
                ELSE /\ resp' = [resp EXCEPT ![c] = <<p>>]
                     /\ pc' = [pc EXCEPT ![c] = "read_data"]
                     /\ UNCHANGED <<int, rw_readers, vendor_if_mutex, op, sent, txres,
                                    outcome>>
  /\ UNCHANGED <<registry, ltVars, auxVars>>

\* _read: the read of the response payload into the vector; an Err carries
\* no packet
ReadData(c) ==
  /\ pc[c] = "read_data"
  /\ \E r \in read_bulk(PayloadBufferLen(resp[c][1].data_size)) :
       Return(c, ReadDataResult(r, resp[c][1].data_size),
              IF ReadDataResult(r, resp[c][1].data_size) = "ok" THEN resp[c]
                                                                ELSE <<>>)
  /\ UNCHANGED <<registry, ltVars, auxVars>>

\* the owner of the Device Handle (the registry) releases its Arc
DropHandle ==
  /\ registry
  /\ registry' = FALSE
  /\ UNCHANGED <<int, rw_readers, vendor_if_mutex, ltVars, callerVars, auxVars>>

(* --------------------------- Lifecycle Thread -------------------------- *)

\* results of UsbSaitekFipLcdInt::new: Ok, an rusb::Error of one of its `?`,
\* or the panic of one of its expect()s
NewResults == {"Ok", "Access", "NoDevice", "panic"}

\* the thread unwinds (a panic) or returns: its guards and Arcs are dropped
LtLeave(to) ==
  /\ lt_pc' = to
  /\ device' = FALSE
  /\ loop_device' = FALSE
  /\ rw_readers' = rw_readers \ {LT}

\* let Some(device) = device_weak.upgrade() else { return }
LtStart ==
  /\ lt_pc = "start"
  /\ IF upgrade
       THEN /\ device' = TRUE
            /\ lt_pc' = "new"
       ELSE /\ device' = FALSE
            /\ lt_pc' = "exited"
  /\ UNCHANGED <<registry, int, rw_readers, vendor_if_mutex, loop_device,
                 response, hid, new_err, callerVars, auxVars>>

\* an arm that retries after every Err
RetryOn_AnyErr(r) == r \in {"Access", "NoDevice"}

\* the arm Err(rusb::Error::Access) of the match on UsbSaitekFipLcdInt::new
RetryOn(r) == r = "Access"

\* match UsbSaitekFipLcdInt::new(&device): Ok goes on to the probe,
\* Err(Access) sleeps one second and tries once more, any other Err panics; a
\* panic inside new unwinds before the match has a value
LtNew ==
  /\ lt_pc = "new"
  /\ \E r \in NewResults :
       IF r = "Ok"
         THEN /\ lt_pc' = "probe"
              /\ UNCHANGED <<device, loop_device, rw_readers, new_err>>
       ELSE IF RetryOn(r)
         THEN /\ lt_pc' = "retry"
              /\ new_err' = r
              /\ UNCHANGED <<device, loop_device, rw_readers>>
       ELSE /\ LtLeave("panicked")
            /\ new_err' = IF r = "panic" THEN new_err ELSE r
  /\ UNCHANGED <<registry, int, vendor_if_mutex, response, hid, callerVars,
                 auxVars>>

\* after the sleep: UsbSaitekFipLcdInt::new(&device).expect("Cannot open device");
\* the match ends when the arm has produced device_int
LtRetry ==
  /\ lt_pc = "retry"
  /\ \E r \in NewResults :
       IF r = "Ok"
         THEN /\ lt_pc' = "probe"
              /\ new_err' = "none"
              /\ UNCHANGED <<device, loop_device, rw_readers>>
         ELSE /\ LtLeave("panicked")
              /\ UNCHANGED new_err
  /\ UNCHANGED <<registry, int, vendor_if_mutex, response, hid, callerVars,
                 auxVars>>

\* a run that publishes the Session before it probes
LtProbeWrite_Installed ==
  /\ lt_pc = "probe"
  /\ MutexFree(vendor_if_mutex)
  /\ \E r \in write_bulk(ControlPacketSize) :
       IF SizeMismatch(ControlPacket_new(SomeFactoryModeRequest), <<>>)
            \/ WriteResult(r, ControlPacketSize) # "ok"
         THEN /\ LtLeave("panicked")
              /\ UNCHANGED vendor_if_mutex
         ELSE /\ lt_pc' = "probe_read"
              /\ vendor_if_mutex' = LT
              /\ UNCHANGED <<device, loop_device, rw_readers>>
  /\ int' = "Some"
  /\ UNCHANGED <<registry, response, hid, new_err, callerVars, auxVars>>

\* device_int.transcieve(ControlPacket::new(SomeFactoryModeRequest), None):
\* the lock and _write; an Err makes the expect() panic
LtProbeWrite ==
  /\ lt_pc = "probe"
  /\ MutexFree(vendor_if_mutex)
  /\ \E r \in write_bulk(ControlPacketSize) :
       IF SizeMismatch(ControlPacket_new(SomeFactoryModeRequest), <<>>)
            \/ WriteResult(r, ControlPacketSize) # "ok"
         THEN /\ LtLeave("panicked")
              /\ UNCHANGED vendor_if_mutex
         ELSE /\ lt_pc' = "probe_read"
              /\ vendor_if_mutex' = LT
              /\ UNCHANGED <<device, loop_device, rw_readers>>
  /\ UNCHANGED <<registry, int, response, hid, new_err, callerVars, auxVars>>

\* the _read of the probe, the read of the 44-byte packet and the look at
\* its data size; when _read ends here transcieve returns and the guard is
\* dropped, and an Err makes the expect() panic
LtProbeRead ==
  /\ lt_pc = "probe_read"
  /\ \E r \in read_bulk(ControlPacketSize) :
       IF ReadPacketResult(r) # "ok"
         THEN /\ vendor_if_mutex' = GuardDrop(vendor_if_mutex, ReadPacketResult(r))
              /\ LtLeave("panicked")
              /\ UNCHANGED response
         ELSE \E p \in ResponsePackets :
                IF p.data_size = 0
                  THEN /\ vendor_if_mutex' = GuardDrop(vendor_if_mutex, "ok")
                       /\ response' = <<p>>
                       /\ lt_pc' = "probe_check"
                       /\ UNCHANGED <<device, loop_device, rw_readers>>
                ELSE IF TooBig(p.data_size)
                  THEN /\ vendor_if_mutex' = GuardDrop(vendor_if_mutex, "panic")
                       /\ LtLeave("panicked")
                       /\ UNCHANGED response
                ELSE /\ response' = <<p>>
                     /\ lt_pc' = "probe_read_data"
                     /\ UNCHANGED <<vendor_if_mutex, device, loop_device,
                                    rw_readers>>
  /\ UNCHANGED <<registry, int, hid, new_err, callerVars, auxVars>>

\* the _read of the probe, the read of the payload the response declares;
\* transcieve returns and the guard is dropped
LtProbeReadData ==
  /\ lt_pc = "probe_read_data"
  /\ \E r \in read_bulk(PayloadBufferLen(response[1].data_size)) :
       /\ vendor_if_mutex' =
            GuardDrop(vendor_if_mutex, ReadDataResult(r, response[1].data_size))
       /\ IF ReadDataResult(r, response[1].data_size) = "ok"
            THEN /\ lt_pc' = "probe_check"
                 /\ UNCHANGED <<response, device, loop_device, rw_readers>>
            ELSE /\ LtLeave("panicked")
                 /\ response' = <<>>
  /\ UNCHANGED <<registry, int, hid, new_err, callerVars, auxVars>>

\* the probe check with the negation left out
LtProbeCheck_Inverted ==
  /\ lt_pc = "probe_check"
  /\ IF has_error(response[1])
       THEN LtLeave("exited") /\ UNCHANGED response
       ELSE /\ lt_pc' = "install"
            /\ response' = <<>>
            /\ UNCHANGED <<device, loop_device, rw_readers>>
  /\ UNCHANGED <<registry, int, vendor_if_mutex, hid, new_err, callerVars,
                 auxVars>>

\* if !response.has_error() { return; }  `response` is not used after the
\* check: the model keeps it only for a run that ends here
LtProbeCheck ==
  /\ lt_pc = "probe_check"
  /\ IF ~has_error(response[1])
       THEN LtLeave("exited") /\ UNCHANGED response
       ELSE /\ lt_pc' = "install"
            /\ response' = <<>>
            /\ UNCHANGED <<device, loop_device, rw_readers>>
  /\ UNCHANGED <<registry, int, vendor_if_mutex, hid, new_err, callerVars,
                 auxVars>>

\* device.int.write().expect(..).replace(device_int): waits until no read
\* guard is held
LtInstall ==
  /\ lt_pc = "install"
  /\ rw_readers = {}
  /\ int' = "Some"
  /\ lt_pc' = "loop"
  /\ UNCHANGED <<registry, rw_readers, vendor_if_mutex, device, loop_device,
                 response, hid, new_err, callerVars, auxVars>>

\* a loop that installs the Session anew in every iteration
LtUpgrade_Reinstall ==
  /\ lt_pc = "loop"
  /\ IF upgrade
       THEN /\ loop_device' = TRUE
            /\ lt_pc' = "install"
            /\ UNCHANGED <<device, rw_readers>>
       ELSE LtLeave("exited")
  /\ hid' = "none"
  /\ UNCHANGED <<registry, int, vendor_if_mutex, response, new_err, callerVars,
                 auxVars>>

\* loop head: match device_weak.upgrade() { Some(device) => device, None => return };
\* no report has been read in the iteration that begins
LtUpgrade ==
  /\ lt_pc = "loop"
  /\ IF upgrade
       THEN /\ loop_device' = TRUE
            /\ lt_pc' = "int_read"
            /\ UNCHANGED <<device, rw_readers>>
       ELSE LtLeave("exited")
  /\ hid' = "none"
  /\ UNCHANGED <<registry, int, vendor_if_mutex, response, new_err, callerVars,
                 auxVars>>

\* device.int.read().expect(..).as_ref().unwrap(): the read guard is taken,
\* and an empty slot panics
LtIntRead ==
  /\ lt_pc = "int_read"
  /\ IF int = "None"
       THEN LtLeave("panicked")
       ELSE /\ rw_readers' = rw_readers \cup {LT}
            /\ lt_pc' = "read_hid"
            /\ UNCHANGED <<device, loop_device>>
  /\ UNCHANGED <<registry, int, vendor_if_mutex, response, hid, new_err, callerVars,
                 auxVars>>

\* the read guard is a temporary of the match scrutinee: it lives to the end
\* of the match, so the arms run with it still held
ArmReaders(readers) == readers

\* arms in which only Ok goes round the loop
LoopsAgain_OkOnly(h) == h = "Ok"

\* the arms Ok(_) (the buttons are logged) and Err(rusb::Error::Timeout)
\* (continue) do nothing to the device
LoopsAgain(h) == h \in {"Ok", "Timeout"}

\* a report read that waits for the transaction lock
LtReadHid_Locked ==
  /\ lt_pc = "read_hid"
  /\ MutexFree(vendor_if_mutex)
  /\ \E h \in read_hid :
       IF LoopsAgain(h)
         THEN /\ hid' = IF h = "Ok" THEN "none" ELSE h
              /\ rw_readers' = rw_readers \ {LT}
              /\ loop_device' = FALSE
              /\ lt_pc' = "loop"
         ELSE /\ hid' = h
              /\ rw_readers' = ArmReaders(rw_readers)
              /\ lt_pc' = "invalidate"
              /\ UNCHANGED loop_device
  /\ UNCHANGED <<registry, int, vendor_if_mutex, device, response, new_err, callerVars,
                 auxVars>>

\* .handle.read_hid(&mut hid_buffer, 5 s) and the arms Ok and Err(Timeout),
\* after which the match ends: the guard and the loop's Arc are dropped; the
\* other arms go on to invalidate
LtReadHid ==
  /\ lt_pc = "read_hid"
  /\ \E h \in read_hid :
       IF LoopsAgain(h)
         THEN /\ hid' = IF h = "Ok" THEN "none" ELSE h
              /\ rw_readers' = rw_readers \ {LT}
              /\ loop_device' = FALSE
              /\ lt_pc' = "loop"
         ELSE /\ hid' = h
              /\ rw_readers' = ArmReaders(rw_readers)
              /\ lt_pc' = "invalidate"
              /\ UNCHANGED loop_device
  /\ UNCHANGED <<registry, int, vendor_if_mutex, device, response, new_err, callerVars,
                 auxVars>>

\* what RwLock::write does when the calling thread holds a read guard of the
\* same lock: it blocks for ever or it panics
WriteWhileReading == {"deadlock", "panic"}

\* the arms Err(NoDevice) and Err(err): if let Ok(mut guard) =
\* device.int.write() { drop(guard.take()) }, then the end of the match and
\* drop(device)
LtInvalidate ==
  /\ lt_pc = "invalidate"
  /\ IF LT \in rw_readers
       THEN /\ \E w \in WriteWhileReading :
                 IF w = "deadlock"
                   THEN lt_pc' = "deadlocked" /\ UNCHANGED <<device, loop_device, rw_readers>>
                   ELSE LtLeave("panicked")
            /\ UNCHANGED int
       ELSE /\ rw_readers = {}
            /\ int' = "None"
            /\ loop_device' = FALSE
            /\ lt_pc' = "loop"
            /\ UNCHANGED <<device, rw_readers>>
  /\ UNCHANGED <<registry, vendor_if_mutex, response, hid, new_err, callerVars,
                 auxVars>>

(* ------------------------ codec of the ControlPacket ------------------- *)

\* values of a 32-bit field: zero, one, numbers whose bytes differ, and the
\* largest number of this model (TLC's integers end at 2^31 - 1)
U32Values == {0, 1, 258, 2147483647}

\* the packets a sender builds with ControlPacket::new and the setters
LogicalPackets ==
  {set_infos(set_errors(set_params(set_data_size(set_page(
       ControlPacket_new(rq), pg), ds), p1, p2, p3), he, re), sid, 0, ri) :
     rq \in Catalogue, pg \in {0, 255}, ds \in {0, 258}, p1 \in U32Values,
     p2 \in {0, 1}, p3 \in {0, 65536}, he \in {0, 1}, re \in {0, 16777216},
     sid \in {0, 1}, ri \in {0, 1}}

\* numbers in the request field that the catalogue does not have
UnknownOpcodes == {0, 1, 5, 25, 2147483647}

\* 44-byte buffers a device may send: an opcode outside the catalogue, and
\* error fields with one byte set
DeviceBuffers ==
  {<<0, 0, 0, 0>> \o <<0, 0, 0, 1>> \o <<0, 0, 0, 0>> \o he \o <<0, 0, 0, 0>>
     \o BEU32_into(rq) \o <<0, 0, 0, 0>> \o <<0, 0, 0, 0>> \o <<0, 0, 0, 0>>
     \o re \o <<0, 0, 0, 0>> :
     rq \in UnknownOpcodes \cup {SetLed},
     he \in {<<0, 0, 0, 0>>, <<0, 0, 0, 2>>, <<1, 0, 0, 0>>},
     re \in {<<0, 0, 0, 0>>, <<0, 3, 0, 0>>}}

\* the state before an encoding: a packet has been built, or none (the bytes
\* will come from the device)
CodecInit ==
  /\ CoreInit
  /\ ButtonsIdle
  /\ ShimIdle
  /\ packet \in {<<>>} \cup {<<p>> : p \in LogicalPackets}
  /\ wire = <<>>
  /\ decoded = <<>>

\* _write: let buffer = control_packet.as_bytes()
Encode ==
  /\ packet # <<>>
  /\ wire = <<>>
  /\ wire' = as_bytes(packet[1])
  /\ UNCHANGED <<packet, decoded, coreVars, buttonVars, shimVars>>

\* the device fills the buffer of _read
Receive ==
  /\ packet = <<>>
  /\ wire = <<>>
  /\ wire' \in DeviceBuffers
  /\ UNCHANGED <<packet, decoded, coreVars, buttonVars, shimVars>>

\* _read: ControlPacket::read_from(&control_packet_bytes)
Decode ==
  /\ wire # <<>>
  /\ decoded = <<>>
  /\ decoded' = read_from(wire)
  /\ UNCHANGED <<packet, wire, coreVars, buttonVars, shimVars>>

CodecNext == Encode \/ Receive \/ Decode

CodecSpec == CodecInit /\ [][CodecNext]_vars


(* ------------------------------ buttons -------------------------------- *)

\* The button report: two bytes read from the HID interface, decoded as a
\* big-endian u16 and wrapped into the Buttons bitmask.

S1 == 256
S2 == 512
S3 == 1024
S4 == 2048
S5 == 4096
S6 == 8192
LEFT_ANTICLOCKWISE == 16384
LEFT_CLOCKWISE == 32768
UP == 1
DOWN == 2
RIGHT_ANTICLOCKWISE == 4
RIGHT_CLOCKWISE == 8

\* the variants of the bitmask, by name
Flags ==
  [S1 |-> S1, S2 |-> S2, S3 |-> S3, S4 |-> S4, S5 |-> S5, S6 |-> S6,
   LEFT_ANTICLOCKWISE |-> LEFT_ANTICLOCKWISE, LEFT_CLOCKWISE |-> LEFT_CLOCKWISE,
   UP |-> UP, DOWN |-> DOWN,
   RIGHT_ANTICLOCKWISE |-> RIGHT_ANTICLOCKWISE, RIGHT_CLOCKWISE |-> RIGHT_CLOCKWISE]

\* a variant of U16_get that reads the low byte first
U16_get_LittleEndian(b) == b[2] * 256 + b[1]

\* zerocopy::U16<BigEndian>::from_bytes(b).get()
U16_get(b) == b[1] * 256 + b[2]

\* Buttons::from(u16): the bits are kept as they are, no bit is checked
Buttons_from(v) == [bits |-> v]

\* Buttons::contains for a one-bit flag
contains(b, flag) == (b.bits \div flag) % 2 = 1

\* the variants a value contains
Pressed(b) == {n \in DOMAIN Flags : contains(b, Flags[n])}

\* bytes of the reports explored: each bit alone, the four right-side bits,
\* the reserved bits of the low byte and every bit
ReportBytes == {0, 1, 2, 4, 8, 15, 16, 32, 64, 128, 240, 255}

ButtonsInit ==
  /\ CoreInit
  /\ CodecIdle
  /\ ShimIdle
  /\ hid_buffer \in {<<hi, lo>> : hi \in ReportBytes, lo \in ReportBytes}
  /\ buttons = <<>>

\* the Ok arm of the read of the HID endpoint
DecodeButtons ==
  /\ buttons = <<>>
  /\ buttons' = <<Buttons_from(U16_get(hid_buffer))>>
  /\ UNCHANGED <<hid_buffer, coreVars, codecVars, shimVars>>

ButtonsNext == DecodeButtons

ButtonsSpec == ButtonsInit /\ [][ButtonsNext]_vars

(* ---------------------------- specification ---------------------------- *)

LtNext ==
  \/ LtStart
  \/ LtNew
  \/ LtRetry
  \/ LtProbeWrite
  \/ LtProbeRead
  \/ LtProbeReadData
  \/ LtProbeCheck
  \/ LtInstall
  \/ LtUpgrade
  \/ LtIntRead
  \/ LtReadHid
  \/ LtInvalidate

CallerNext(c) ==
  \/ \E o \in Ops : Call(c, o)
  \/ Lock(c)
  \/ WritePacket(c)
  \/ WriteData(c)
  \/ ReadPacket(c)
  \/ ReadData(c)

Next ==
  \/ LtNext
  \/ \E c \in Callers : CallerNext(c)
  \/ DropHandle

Spec == Init /\ [][Next]_vars

\* every thread that can take a step is scheduled eventually
FairSpec ==
  Spec /\ WF_vars(LtNext) /\ \A c \in Callers : WF_vars(CallerNext(c))

(* ------------------------------- libfip -------------------------------- *)

\* The export shim (src/libfip.rs): the static STATE, a Mutex over the
\* Option of the registry (devices::State), and the DirectOutput_* entry
\* points that host threads call.  The registry itself (devices/mod.rs) is
\* modelled from its contract: it holds one Device Handle per address and the
\* registered hot-plug handlers.  The host threads are the Callers: inside a
\* device operation a host thread is the caller of the ManagedDisplay trait.

\* hot-plug handlers a host registers at most
MaxHandlers == 1

\* the address of a second display, whose Lifecycle Thread has left without
\* installing a Session: it is registered and never ready
OtherDisplay == <<1, 3>>

\* device pointers a host passes: 0, the two displays, an address without a
\* display, and a pointer with bits above the low 16
DevicePtrs == {0, 258, 259, 260, 65794}

\* extract_addr: <<>> is Err(E_HANDLE), <<addr>> is Ok(addr)
extract_addr(device_ptr) ==
  IF device_ptr % 65536 = 0 \/ device_ptr >= 65535 THEN <<>>
  ELSE <<<<(device_ptr % 65536) \div 256, (device_ptr % 65536) % 256>>>>

embed_addr(device_addr) == device_addr[1] * 256 + device_addr[2]

\* State::display_by_addr: <<>> is None
display_by_addr(addr) == IF addr \in displays THEN <<addr>> ELSE <<>>

\* display.ready() of the display registered for addr
display_ready(addr) == IF addr = TheDisplay THEN ready ELSE "false"

\* get_display: "Ok" stands for Ok(display), "blocks" for a call that stays
\* in display.ready()
get_display(device_ptr) ==
  IF extract_addr(device_ptr) = <<>> THEN "E_HANDLE"
  ELSE IF display_by_addr(extract_addr(device_ptr)[1]) = <<>> THEN "E_HANDLE"
  ELSE IF display_ready(extract_addr(device_ptr)[1]) = "blocks" THEN "blocks"
  ELSE IF display_ready(extract_addr(device_ptr)[1]) = "false" THEN "E_HANDLE"
  ELSE "Ok"

\* the entry points that look a display up
DeviceEntries ==
  {"GetDeviceType", "SetLed", "SetImage", "SaveFile", "DisplayFile",
   "DeleteFile", "GetSerialNumber"}

\* the entry points that need the registry
StateEntries == {"Enumerate", "RegisterDeviceCallback"} \cup DeviceEntries

\* the entry points that do nothing and return a fixed HRESULT
StubEntries ==
  {"RegisterPageCallback", "RegisterSoftButtonCallback", "AddPage",
   "RemovePage", "GetDeviceInstance", "SetProfile", "SetString"}

\* the HRESULT of an entry point of StubEntries
StubResult(name) ==
  IF name \in {"GetDeviceInstance", "SetProfile", "SetString"}
    THEN "E_NOTIMPL" ELSE "S_OK"

\* the entry points whose body is todo!()
TodoEntries ==
  {"SetImageFromFile", "StartServer", "CloseServer", "SendServerMsg",
   "SendServerFile"}

\* calls with other arguments the entry point does not accept.  "invalid":
\* a page, index or file number that does not fit 8 bits, a LED value other
\* than 0 and 1, a file name that cannot be read from its pointer or a file
\* that cannot be opened; "null": a null image; "size": an image of another
\* size than 0x38400; "bad_name": a file name that is not UTF-16; "small": a
\* buffer shorter than the serial number
BadArgs ==
  {<<"SetLed", "invalid">>, <<"SetImage", "null">>, <<"SetImage", "size">>,
   <<"SetImage", "invalid">>, <<"SaveFile", "invalid">>,
   <<"SaveFile", "bad_name">>, <<"DisplayFile", "invalid">>,
   <<"DeleteFile", "invalid">>, <<"GetSerialNumber", "small">>}

\* the calls a host thread can make: the entry points without a device
\* pointer and those that do not look at theirs; every device pointer with
\* GetDeviceType, a valid and an invalid one with the others; the calls of
\* BadArgs on the display
HostCalls ==
  {[NoEntry EXCEPT !.name = n] :
     n \in {"Initialize", "Deinitialize", "Enumerate", "RegisterDeviceCallback"}
            \cup StubEntries \cup TodoEntries}
    \cup {[name |-> n, ptr |-> p, args |-> "ok"] :
            n \in {"GetDeviceType"}, p \in DevicePtrs}
    \cup {[name |-> n, ptr |-> p, args |-> "ok"] :
            n \in DeviceEntries \ {"GetDeviceType"}, p \in {0, 258}}
    \cup {[name |-> b[1], ptr |-> 258, args |-> b[2]] : b \in BadArgs}

\* the checks an entry point makes between get_display and the call of the
\* display: the HRESULT it returns early, "panic" for the expect on the
\* file name, or "Ok"
Validate(e) ==
  CASE e.args = "invalid" -> "E_INVALIDARG"
    [] e.args = "null" -> "E_INVALIDARG"
    [] e.args = "size" -> "E_BUFFERTOOSMALL"
    [] e.args = "bad_name" -> "panic"
    [] OTHER -> "Ok"

\* the operation of the ManagedDisplay trait an entry point calls
KindOf(name) ==
  CASE name = "GetDeviceType" -> "device_type_uuid"
    [] name = "GetSerialNumber" -> "serial_number"
    [] name = "SetLed" -> "set_led"
    [] name = "SetImage" -> "set_image_data"
    [] name = "SaveFile" -> "save_file"
    [] name = "DisplayFile" -> "display_file"
    [] name = "DeleteFile" -> "delete_file"
    [] OTHER -> "none"

DeviceOps(e) == {o \in Ops : o.kind = KindOf(e.name)}

\* the serial-number strings a display may have: one without a NUL, one
\* with a NUL inside
SerialNumbers == {"plain", "nul"}

\* WideCString::from_str(serial_number): Err(ContainsNul) for a string with
\* a NUL inside
from_str(s) == IF s = "nul" THEN "Err" ELSE "Ok"

\* how the entry point ends once the display has answered: the Result of
\* the operation is discarded; GetSerialNumber first converts the serial
\* number and panics in the expect when the conversion fails, then compares
\* the length of the serial number with the size of the buffer
ResultOf(e) ==
  IF e.name = "GetSerialNumber" /\ from_str(serial) = "Err" THEN "panics"
  ELSE IF e.name = "GetSerialNumber" /\ e.args = "small" THEN "E_BUFFERTOOSMALL"
  ELSE "S_OK"

\* a panic that reaches the extern boundary of an entry point either aborts
\* the process or unwinds into the host, by the toolchain the library was
\* built with
PanicModes == {"abort", "unwind"}

\* Mutex::lock by the thread that holds the mutex: it never returns
LockWhileHeld == {"deadlock", "panic"}

\* a lock the holder can take again
lock_Reentrant(c) ==
  IF state_lock \in {NoOne, c} THEN {"acquired"} ELSE {}

\* STATE.lock() by thread c: it returns once no thread holds the mutex; {}
\* stands for waiting
lock(c) ==
  IF state_lock = NoOne THEN {"acquired"}
  ELSE IF state_lock = c THEN LockWhileHeld
  ELSE {}

\* devices::init(): <<>> is Err, <<d>> is Ok with the displays d it found:
\* none, the second display, or both.  The display of the Device Handle
\* above is found by the first initialization at most
devices_init ==
  {<<>>} \cup {<<d>> : d \in {x \in SUBSET {TheDisplay, OtherDisplay} :
                                TheDisplay \in x =>
                                  (OtherDisplay \in x /\ lt_pc = "unspawned")}}

\* the library as loaded: STATE is None, no logger is set, no Device Handle
\* has been constructed
ShimInit ==
  /\ registry = FALSE
  /\ int = "None"
  /\ rw_readers = {}
  /\ vendor_if_mutex = NoOne
  /\ lt_pc = "unspawned"
  /\ device = FALSE
  /\ loop_device = FALSE
  /\ new_err = "none"
  /\ response = <<>>
  /\ hid = "none"
  /\ pc = [c \in Callers |-> "idle"]
  /\ op = [c \in Callers |-> NoOp]
  /\ sent = [c \in Callers |-> <<>>]
  /\ resp = [c \in Callers |-> <<>>]
  /\ txres = [c \in Callers |-> "none"]
  /\ outcome = [c \in Callers |-> "none"]
  /\ CodecIdle
  /\ ButtonsIdle
  /\ state = "None"
  /\ state_lock = NoOne
  /\ poisoned = FALSE
  /\ logger = FALSE
  /\ process = "running"
  /\ displays = {}
  /\ handlers = 0
  /\ shim_pc = [c \in Callers |-> "out"]
  /\ entry = [c \in Callers |-> NoEntry]
  /\ hresult = "none"
  /\ todo = [c \in Callers |-> {}]
  /\ cb_seq = [c \in Callers |-> <<>>]
  /\ serial = "none"

\* the entry point of thread c returns hr to the host
Leave(c, hr) ==
  /\ shim_pc' = [shim_pc EXCEPT ![c] = "out"]
  /\ entry' = [entry EXCEPT ![c] = NoEntry]
  /\ hresult' = hr

\* thread c panics inside its entry point: the call is over
Panics(c) ==
  /\ shim_pc' = [shim_pc EXCEPT ![c] = "panicking"]
  /\ entry' = [entry EXCEPT ![c] = NoEntry]
  /\ UNCHANGED hresult

\* a host thread calls an entry point that looks at STATE or at the logger
HostCall(c, e) ==
  /\ process = "running"
  /\ shim_pc[c] = "out"
  /\ e.name \notin StubEntries \cup TodoEntries
  /\ e.name = "RegisterDeviceCallback" =>
       handlers + Cardinality({d \in Callers :
                                 entry[d].name = "RegisterDeviceCallback"})
         < MaxHandlers
  /\ shim_pc' = [shim_pc EXCEPT ![c] = "called"]
  /\ entry' = [entry EXCEPT ![c] = e]
  /\ hresult' = "none"
  /\ UNCHANGED <<state, state_lock, poisoned, logger, process, serial, displays,
                 handlers, todo, cb_seq, coreVars, codecVars, buttonVars>>

\* DirectOutput_Initialize, pretty_env_logger::init(): try_init().unwrap()
\* panics when the process has a logger already
InitLogger(c) ==
  /\ process = "running"
  /\ shim_pc[c] = "called"
  /\ entry[c].name = "Initialize"
  /\ IF logger
       THEN Panics(c) /\ UNCHANGED logger
       ELSE /\ logger' = TRUE
            /\ shim_pc' = [shim_pc EXCEPT ![c] = "init"]
            /\ UNCHANGED <<entry, hresult>>
  /\ UNCHANGED <<state, state_lock, poisoned, process, serial, displays, handlers,
                 todo, cb_seq, coreVars, codecVars, buttonVars>>

\* DirectOutput_Initialize from STATE.lock() on: the registry is built only
\* when STATE is None; the expect on devices::init() panics under the guard
Initialize(c) ==
  /\ process = "running"
  /\ shim_pc[c] = "init"
  /\ "acquired" \in lock(c)
  /\ IF poisoned
       THEN /\ Panics(c)
            /\ UNCHANGED <<state, state_lock, displays, serial, registry, lt_pc>>
       ELSE IF state = "None"
       THEN \E r \in devices_init :
              IF r = <<>>
                THEN /\ Panics(c)
                     /\ state_lock' = c
                     /\ UNCHANGED <<state, displays, serial, registry, lt_pc>>
                ELSE /\ state' = "Some"
                     /\ displays' = r[1]
                     /\ serial' \in IF TheDisplay \in r[1] THEN SerialNumbers
                                                          ELSE {serial}
                     /\ registry' = (TheDisplay \in r[1])
                     /\ lt_pc' = IF TheDisplay \in r[1] THEN "start" ELSE lt_pc
                     /\ Leave(c, "S_OK")
                     /\ UNCHANGED state_lock
       ELSE /\ Leave(c, "S_OK")
            /\ UNCHANGED <<state, state_lock, displays, serial, registry, lt_pc>>
  /\ UNCHANGED <<poisoned, logger, process, handlers, todo, cb_seq, int,
                 rw_readers, vendor_if_mutex, device, loop_device, new_err,
                 response, hid, callerVars, codecVars, buttonVars>>

\* DirectOutput_Deinitialize: drop(state.take()) drops the registry with its
\* handlers and its Arcs of the Device Handles
Deinitialize(c) ==
  /\ process = "running"
  /\ shim_pc[c] = "called"
  /\ entry[c].name = "Deinitialize"
  /\ "acquired" \in lock(c)
  /\ IF poisoned
       THEN /\ Panics(c)
            /\ UNCHANGED <<state, displays, handlers, registry>>
       ELSE IF state = "Some"
       THEN /\ state' = "None"
            /\ displays' = {}
            /\ handlers' = 0
            /\ registry' = FALSE
            /\ Leave(c, "S_OK")
       ELSE /\ Leave(c, "S_OK")
            /\ UNCHANGED <<state, displays, handlers, registry>>
  /\ UNCHANGED <<state_lock, poisoned, logger, process, serial, todo, cb_seq, int,
                 rw_readers, vendor_if_mutex, ltVars, callerVars, codecVars,
                 buttonVars>>

\* DirectOutput_RegisterDeviceCallback
RegisterDeviceCallback(c) ==
  /\ process = "running"
  /\ shim_pc[c] = "called"
  /\ entry[c].name = "RegisterDeviceCallback"
  /\ "acquired" \in lock(c)
  /\ IF poisoned THEN Panics(c) /\ UNCHANGED handlers
     ELSE IF state = "None" THEN Leave(c, "E_HANDLE") /\ UNCHANGED handlers
     ELSE Leave(c, "S_OK") /\ handlers' = handlers + 1
  /\ UNCHANGED <<state, state_lock, poisoned, logger, process, serial, displays, todo,
                 cb_seq, coreVars, codecVars, buttonVars>>

\* DirectOutput_Enumerate up to the for_each: the guard of STATE is a
\* temporary of the let-else and lives to the end of the function
Enumerate(c) ==
  /\ process = "running"
  /\ shim_pc[c] = "called"
  /\ entry[c].name = "Enumerate"
  /\ "acquired" \in lock(c)
  /\ IF poisoned THEN Panics(c) /\ UNCHANGED <<state_lock, todo>>
     ELSE IF state = "None" THEN Leave(c, "E_HANDLE") /\ UNCHANGED <<state_lock, todo>>
     ELSE /\ state_lock' = c
          /\ todo' = [todo EXCEPT ![c] = displays]
          /\ shim_pc' = [shim_pc EXCEPT ![c] = "enumerate"]
          /\ UNCHANGED <<entry, hresult>>
  /\ UNCHANGED <<state, poisoned, logger, process, serial, displays, handlers, cb_seq,
                 coreVars, codecVars, buttonVars>>

\* the address for_each visits next
NextAddr(addrs) ==
  CHOOSE a \in addrs : \A b \in addrs : embed_addr(a) <= embed_addr(b)

\* DirectOutput_Enumerate, one turn of the for_each: the callback is called
\* with the next address, or the function returns S_OK and drops the guard
EnumerateNext(c) ==
  /\ process = "running"
  /\ shim_pc[c] = "enumerate"
  /\ IF todo[c] = {}
       THEN /\ Leave(c, "S_OK")
            /\ state_lock' = NoOne
            /\ cb_seq' = [cb_seq EXCEPT ![c] = <<>>]
            /\ UNCHANGED todo
       ELSE /\ todo' = [todo EXCEPT ![c] = @ \ {NextAddr(todo[c])}]
            /\ cb_seq' = [cb_seq EXCEPT ![c] = Append(@, embed_addr(NextAddr(todo[c])))]
            /\ shim_pc' = [shim_pc EXCEPT ![c] = "callback"]
            /\ UNCHANGED <<entry, hresult, state_lock>>
  /\ UNCHANGED <<state, poisoned, logger, process, serial, displays, handlers,
                 coreVars, codecVars, buttonVars>>

\* the callback of the host returns to the for_each
CallbackReturns(c) ==
  /\ process = "running"
  /\ shim_pc[c] = "callback"
  /\ shim_pc' = [shim_pc EXCEPT ![c] = "enumerate"]
  /\ UNCHANGED <<entry, hresult, state, state_lock, poisoned, logger, process, serial,
                 displays, handlers, todo, cb_seq, coreVars, codecVars,
                 buttonVars>>

\* the callback of the host calls DirectOutput_GetDeviceType on the device
\* it was handed
CallbackCalls(c) ==
  /\ process = "running"
  /\ shim_pc[c] = "callback"
  /\ shim_pc' = [shim_pc EXCEPT ![c] = "nested"]
  /\ UNCHANGED <<entry, hresult, state, state_lock, poisoned, logger, process, serial,
                 displays, handlers, todo, cb_seq, coreVars, codecVars,
                 buttonVars>>

\* DirectOutput_GetDeviceType called from inside the callback: STATE.lock()
\* by the thread that holds the guard.  Were the lock acquired, the call
\* would look the display up, read its type and return to the callback
NestedGetDeviceType(c) ==
  /\ process = "running"
  /\ shim_pc[c] = "nested"
  /\ \E l \in lock(c) :
       CASE l = "acquired" ->
              IF get_display(cb_seq[c][Len(cb_seq[c])]) = "blocks"
                THEN /\ shim_pc' = [shim_pc EXCEPT ![c] = "waiting"]
                     /\ UNCHANGED hresult
                ELSE /\ shim_pc' = [shim_pc EXCEPT ![c] = "callback"]
                     /\ hresult' = IF get_display(cb_seq[c][Len(cb_seq[c])]) = "Ok"
                                     THEN "S_OK" ELSE "E_HANDLE"
         [] l = "deadlock" ->
              /\ shim_pc' = [shim_pc EXCEPT ![c] = "blocked"]
              /\ UNCHANGED hresult
         [] l = "panic" ->
              /\ shim_pc' = [shim_pc EXCEPT ![c] = "panicking"]
              /\ UNCHANGED hresult
  /\ UNCHANGED <<entry, state, state_lock, poisoned, logger, process, serial, displays,
                 handlers, todo, cb_seq, coreVars, codecVars, buttonVars>>

\* an entry point with a device pointer, from STATE.lock() to the call of
\* the display: E_HANDLE without a registry or without a ready display, the
\* checks of the other arguments, then the operation under the guard.  A
\* get_display that stays in display.ready() keeps the guard of STATE
\* ("waiting")
DeviceEntry(c) ==
  /\ process = "running"
  /\ shim_pc[c] = "called"
  /\ entry[c].name \in DeviceEntries
  /\ "acquired" \in lock(c)
  /\ IF poisoned THEN Panics(c) /\ UNCHANGED state_lock
     ELSE IF state = "None" THEN Leave(c, "E_HANDLE") /\ UNCHANGED state_lock
     ELSE IF get_display(entry[c].ptr) = "blocks"
       THEN /\ state_lock' = c
            /\ shim_pc' = [shim_pc EXCEPT ![c] = "waiting"]
            /\ UNCHANGED <<entry, hresult>>
     ELSE IF get_display(entry[c].ptr) # "Ok"
       THEN Leave(c, get_display(entry[c].ptr)) /\ UNCHANGED state_lock
     ELSE IF Validate(entry[c]) = "panic" THEN Panics(c) /\ state_lock' = c
     ELSE IF Validate(entry[c]) # "Ok"
       THEN Leave(c, Validate(entry[c])) /\ UNCHANGED state_lock
     ELSE /\ state_lock' = c
          /\ shim_pc' = [shim_pc EXCEPT ![c] = "op"]
          /\ UNCHANGED <<entry, hresult>>
  /\ UNCHANGED <<state, poisoned, logger, process, serial, displays, handlers, todo,
                 cb_seq, coreVars, codecVars, buttonVars>>

\* a host thread calls an entry point that returns S_OK or E_NOTIMPL
\* without looking at STATE or at its arguments
StubEntry(c, e) ==
  /\ process = "running"
  /\ shim_pc[c] = "out"
  /\ e.name \in StubEntries
  /\ Leave(c, StubResult(e.name))
  /\ UNCHANGED <<state, state_lock, poisoned, logger, process, serial, displays,
                 handlers, todo, cb_seq, coreVars, codecVars, buttonVars>>

\* a host thread calls an entry point whose body is todo!(): it panics,
\* STATE untouched
TodoEntry(c, e) ==
  /\ process = "running"
  /\ shim_pc[c] = "out"
  /\ e.name \in TodoEntries
  /\ Panics(c)
  /\ UNCHANGED <<state, state_lock, poisoned, logger, process, serial, displays,
                 handlers, todo, cb_seq, coreVars, codecVars, buttonVars>>

\* the entry point calls the operation of the display
DeviceOp(c) ==
  /\ process = "running"
  /\ shim_pc[c] = "op"
  /\ pc[c] = "idle"
  /\ \E o \in DeviceOps(entry[c]) : Call(c, o)

\* the steps of the operation inside the Session
DeviceStep(c) ==
  /\ process = "running"
  /\ shim_pc[c] = "op"
  /\ Lock(c) \/ WritePacket(c) \/ WriteData(c) \/ ReadPacket(c) \/ ReadData(c)

\* the operation has returned: its Result is discarded, the guard of STATE
\* is dropped and the entry point returns.  DirectOutput_GetSerialNumber
\* first converts the serial number, and the expect on the conversion
\* panics under the guard
DeviceReturn(c) ==
  /\ process = "running"
  /\ shim_pc[c] = "op"
  /\ pc[c] = "done"
  /\ IF ResultOf(entry[c]) = "panics"
       THEN Panics(c) /\ UNCHANGED state_lock
       ELSE Leave(c, ResultOf(entry[c])) /\ state_lock' = NoOne
  /\ pc' = [pc EXCEPT ![c] = "idle"]
  /\ outcome' = [outcome EXCEPT ![c] = "none"]
  /\ txres' = [txres EXCEPT ![c] = "none"]
  /\ resp' = [resp EXCEPT ![c] = <<>>]
  /\ UNCHANGED <<state, poisoned, logger, process, serial, displays, handlers, todo,
                 cb_seq, registry, int, rw_readers, vendor_if_mutex, ltVars, op, sent,
                 codecVars, buttonVars>>

\* a panic of thread c, in the entry point or in the operation of the
\* display, reaches the extern boundary: the process aborts, or the stack
\* unwinds, and a guard of STATE dropped by the unwinding poisons the mutex
Unwind(c) ==
  /\ process = "running"
  /\ \/ shim_pc[c] = "panicking"
     \/ shim_pc[c] = "op" /\ pc[c] = "panicked"
  /\ \E m \in PanicModes :
       IF m = "abort"
         THEN /\ process' = "aborted"
              /\ UNCHANGED <<shim_pc, entry, todo, cb_seq, poisoned, state_lock>>
         ELSE /\ shim_pc' = [shim_pc EXCEPT ![c] = "panicked"]
              /\ entry' = [entry EXCEPT ![c] = NoEntry]
              /\ todo' = [todo EXCEPT ![c] = {}]
              /\ cb_seq' = [cb_seq EXCEPT ![c] = <<>>]
              /\ poisoned' = (poisoned \/ state_lock = c)
              /\ state_lock' = IF state_lock = c THEN NoOne ELSE state_lock
              /\ UNCHANGED process
  /\ UNCHANGED <<hresult, state, logger, displays, serial, handlers, coreVars,
                 codecVars, buttonVars>>

\* the Lifecycle Thread of the display, while the process lives
ShimLt == process = "running" /\ LtNext

ShimNext ==
  \/ \E c \in Callers : \E e \in HostCalls : HostCall(c, e)
  \/ \E c \in Callers : InitLogger(c)
  \/ \E c \in Callers : Initialize(c)
  \/ \E c \in Callers : Deinitialize(c)
  \/ \E c \in Callers : RegisterDeviceCallback(c)
  \/ \E c \in Callers : Enumerate(c)
  \/ \E c \in Callers : EnumerateNext(c)
  \/ \E c \in Callers : CallbackReturns(c)
  \/ \E c \in Callers : CallbackCalls(c)
  \/ \E c \in Callers : NestedGetDeviceType(c)
  \/ \E c \in Callers : \E e \in HostCalls : StubEntry(c, e)
  \/ \E c \in Callers : \E e \in HostCalls : TodoEntry(c, e)
  \/ \E c \in Callers : DeviceEntry(c)
  \/ \E c \in Callers : DeviceOp(c)
  \/ \E c \in Callers : DeviceStep(c)
  \/ \E c \in Callers : DeviceReturn(c)
  \/ \E c \in Callers : Unwind(c)
  \/ ShimLt

ShimSpec == ShimInit /\ [][ShimNext]_vars

(* ------------------------------- claims -------------------------------- *)

\* the caller steps between the lock of transcieve and its return
InTransact(c) == pc[c] \in {"write_packet", "write_data", "read_packet", "read_data"}

\* the transport has seen a write of caller c whose transaction has not ended
InFlight(c) == pc[c] \in {"write_data", "read_packet", "read_data"}

\* C1: transactions on one Session are serialized: while the transport has
\* seen a write of one thread whose read has not completed, no other thread
\* is writing or reading on the vendor interface (at most one write+read pair
\* in flight)
C1_Serialized ==
  /\ \A a, b \in Callers : (a # b /\ InFlight(a)) => ~InTransact(b)
  /\ lt_pc \in {"probe_read", "probe_read_data"} =>
       \A c \in Callers : ~InTransact(c)

\* one caller has written and awaits its response while another waits for
\* the transaction lock
C1_Witness ==
  \E a, b \in Callers : a # b /\ pc[a] = "read_packet" /\ pc[b] = "lock"

\* the report read failed with something else than a timeout
ReportReadFailed == hid \in {"NoDevice", "Pipe"}

\* C2: a report read that fails with device-gone or another non-timeout error
\* while the slot holds a Session gets the slot cleared: the step in which the
\* thread handles the failure turns ready() from true to false
C2_SlotCleared ==
  [][(lt_pc = "invalidate" /\ lt_pc' # "invalidate" /\ ReportReadFailed
        /\ ready = "true") => ready' = "false"]_vars

\* caller c enters an operation other than ready() with this step
Enters(c) ==
  pc[c] \in {"idle", "done"} /\ pc'[c] # "idle"
    /\ (pc'[c] # pc[c] \/ outcome'[c] # outcome[c] \/ txres'[c] # txres[c])
    /\ outcome'[c] \notin {"true", "false"}

\* C3: a public operation (any but ready()) invoked while the slot is empty
\* returns failure to its caller at once: the call ends with Err, it does
\* not crash the calling thread
C3_EmptySlotFails ==
  [][\A c \in Callers :
       (Enters(c) /\ int = "None") => (pc'[c] = "done" /\ outcome'[c] = "Err")]_vars

\* C4: a factory-mode probe answered without error (header_error = 0 and
\* request_error = 0) never leads to an installed Session: ready() is false
\* in every later state of the run.  The check of such a response ends the
\* run with the slot empty, and an ended run never changes the slot again
C4_FactoryModeNeverReady ==
  /\ []((response # <<>> /\ response[1].header_error = 0
           /\ response[1].request_error = 0) => ready = "false")
  /\ [][(lt_pc = "probe_check" /\ lt_pc' # lt_pc
           /\ response[1].header_error = 0 /\ response[1].request_error = 0)
          => (lt_pc' = "exited" /\ ready' = "false")]_vars
  /\ [][lt_pc = "exited" => (lt_pc' = "exited" /\ int' = int)]_vars

\* the probe came back without error and the run has ended
C4_Witness ==
  /\ response # <<>>
  /\ response[1].header_error = 0
  /\ response[1].request_error = 0
  /\ lt_pc = "exited"
  /\ ready = "false"

\* C5: the Lifecycle Thread holds no owning reference across loop
\* iterations: at the head of the loop, once the registry and every caller
\* have released the Device Handle, the handle is disposed and upgrade fails
C5_NonOwning ==
  (lt_pc = "loop" /\ ~registry /\ \A c \in Callers : ~InCall(c)) => ~upgrade

\* C6: after a failed report read the Lifecycle Thread goes on looping: it
\* is neither blocked for ever nor crashed
C6_KeepsLooping ==
  ReportReadFailed => lt_pc \notin {"deadlocked", "panicked"}

\* C7: the transaction lock is held only by a thread inside transcieve:
\* whatever way a transaction ended (success, transport error, violation),
\* the lock is free again
C7_LockReleased ==
  /\ \A c \in Callers : vendor_if_mutex = c => InTransact(c)
  /\ vendor_if_mutex = LT => lt_pc \in {"probe_read", "probe_read_data"}

\* a transaction was aborted by a violation and a later transaction of
\* another caller has taken the lock
C7_Witness ==
  \E a, b \in Callers :
    /\ a # b
    /\ txres[a] = "panic"
    /\ vendor_if_mutex = b
    /\ pc[b] = "read_packet"

\* C8: a response packet that declares 512 KiB or more aborts the
\* transaction as a violation, and no payload read is issued for it
C8_OversizedAborts ==
  \A c \in Callers :
    (resp[c] # <<>> /\ resp[c][1].data_size >= 512 * 1024)
      => (pc[c] = "panicked" /\ txres[c] = "panic" /\ outcome[c] = "panic")

\* a response declared exactly 512 KiB and the transaction was aborted
C8_Witness ==
  \E c \in Callers :
    /\ resp[c] # <<>>
    /\ resp[c][1].data_size = 512 * 1024
    /\ txres[c] = "panic"

\* a transaction of caller c completed with this step
Completes(c) == txres[c] = "none" /\ txres'[c] = "ok"

\* C9: an operation whose transaction completed returns Ok exactly when both
\* error fields of the response are zero; a response with a non-zero error
\* field makes it return Err and leaves the installed Session in the slot
C9_RequestError ==
  /\ [](\A c \in Callers :
          txres[c] # "none" =>
            (outcome[c] = "Ok" <=>
               (txres[c] = "ok" /\ resp[c][1].header_error = 0
                  /\ resp[c][1].request_error = 0)))
  /\ [][\A c \in Callers :
          (Completes(c) /\ (resp'[c][1].header_error > 0
                              \/ resp'[c][1].request_error > 0))
            => (outcome'[c] = "Err" /\ int = "Some" /\ int' = int
                  /\ ready' = ready)]_vars

\* a transaction completed with request_error set, the operation returned
\* Err and the device is still ready
C9_Witness ==
  \E c \in Callers :
    /\ txres[c] = "ok"
    /\ resp[c][1].request_error > 0
    /\ resp[c][1].header_error = 0
    /\ outcome[c] = "Err"
    /\ ready = "true"

\* the transaction of caller c fails with this step
Fails(c) == txres[c] = "none" /\ txres'[c] \notin {"none", "ok"}

\* C10: a transaction that fails in a caller fails for that caller only:
\* the step leaves the Session in the slot, frees the transaction lock and
\* touches no other caller; and the slot is written by the Lifecycle Thread
\* alone
C10_CallerOnly ==
  [][/\ int' # int => lt_pc' # lt_pc
     /\ \A c \in Callers :
          Fails(c) =>
            /\ int = "Some" /\ int' = int /\ ready' = ready
            /\ outcome'[c] \in {"Err", "panic"}
            /\ vendor_if_mutex' = NoOne
            /\ \A d \in Callers \ {c} :
                 pc'[d] = pc[d] /\ outcome'[d] = outcome[d]]_vars

\* a transaction failed with a transport error and another caller's
\* transaction is under way after it
C10_Witness ==
  \E a, b \in Callers :
    /\ a # b
    /\ txres[a] \in {"Timeout", "NoDevice", "Other"}
    /\ outcome[a] = "Err"
    /\ ready = "true"
    /\ vendor_if_mutex = b
    /\ pc[b] = "read_packet"

\* how far the run of the Lifecycle Thread has come: the positions before
\* the installation, the installation, the report loop, the end of the run
Phase(p) ==
  CASE p = "start" -> 0
    [] p = "new" -> 1
    [] p = "retry" -> 2
    [] p = "probe" -> 3
    [] p \in {"probe_read", "probe_read_data"} -> 4
    [] p = "probe_check" -> 5
    [] p = "install" -> 6
    [] p \in {"loop", "int_read", "read_hid", "invalidate", "deadlocked"} -> 7
    [] OTHER -> 8

\* C11: a run attempts to establish the Session at most twice: the second
\* attempt is made only while an access-denied failure of the first is being
\* handled; a first failure of another kind, or a failure of the second
\* attempt, ends the run with the slot empty, and an ended run never opens
\* the device or writes the slot again
C11_AtMostTwoAttempts ==
  /\ [](lt_pc = "retry" => new_err = "Access")
  /\ []((new_err # "none" /\ lt_pc # "retry") => (lt_pc = "panicked" /\ ready = "false"))
  /\ [][/\ (lt_pc' = "new" /\ lt_pc # "new") => lt_pc = "start"
        /\ (lt_pc' = "retry" /\ lt_pc # "retry") => lt_pc = "new"
        /\ (lt_pc = "retry" /\ lt_pc' # "retry") => lt_pc' \in {"probe", "panicked"}
        /\ lt_pc = "panicked" => (lt_pc' = "panicked" /\ int' = int)]_vars

\* the first attempt failed with access-denied, the second failed too, and
\* the run has ended with the slot empty
C11_Witness ==
  lt_pc = "panicked" /\ new_err = "Access" /\ ready = "false"

\* C12: within one run the slot is set to Some at most once and a cleared
\* slot is never filled again: the run never goes back to an earlier phase,
\* the slot is empty up to the installation, it becomes Some only with the
\* step that leaves the installation for the report loop, and it becomes
\* None only in the report loop
C12_InstalledOnce ==
  /\ [](Phase(lt_pc) <= 6 => ready = "false")
  /\ [][/\ Phase(lt_pc') >= Phase(lt_pc)
        /\ (int = "None" /\ int' = "Some") => (lt_pc = "install" /\ lt_pc' = "loop")
        /\ (int = "Some" /\ int' = "None") => Phase(lt_pc) = 7]_vars

\* the Session is installed, a caller has seen ready() return true, and the
\* run is in the report loop
C12_Witness ==
  ready = "true" /\ lt_pc = "read_hid" /\ \E c \in Callers : outcome[c] = "true"

\* caller c calls ready() with this step and gets its answer
ReadyReturns(c) ==
  /\ pc[c] \in {"idle", "done"}
  /\ outcome'[c] \in {"true", "false"}
  /\ (pc'[c] # pc[c] \/ outcome'[c] # outcome[c] \/ txres'[c] # txres[c]
        \/ resp'[c] # resp[c])

\* C13: ready() is true exactly when the slot holds a Session: every call of
\* ready() answers true iff the slot is Some at that moment; the slot is empty
\* before the installation and in a run that ended before it, and it is Some
\* from the installation on
C13_ReadyIffSession ==
  /\ [](ready = "true" <=> int = "Some")
  /\ []((Phase(lt_pc) <= 6 \/ new_err # "none" \/ response # <<>>) => int = "None")
  /\ [][/\ \A c \in Callers :
             ReadyReturns(c) => (outcome'[c] = "true" <=> int = "Some")
        /\ (lt_pc = "install" /\ lt_pc' # lt_pc) => int' = "Some"
        /\ Phase(lt_pc) = 8 => int' = int]_vars

\* one caller was answered false before the installation and another true
\* after it
C13_Witness ==
  \E a, b \in Callers : outcome[a] = "false" /\ outcome[b] = "true" /\ ready = "true"

\* C14: a public operation holds the read side of the slot's lock only until
\* it has obtained the Session: no caller holds a read guard while its write
\* and read transfers are in flight, so a request for the write side never
\* waits for a transaction
C14_ReadSideBrief ==
  \A c \in Callers : InTransact(c) => c \notin rw_readers

\* C15: a timeout of the report read is a no-op: the step that takes it
\* leaves the Session in the slot and brings the thread back to the head of
\* the loop, with no guard held; a timeout is never handled by invalidation
C15_TimeoutNoOp ==
  /\ [](hid = "Timeout" => (lt_pc = "loop" /\ ready = "true" /\ LT \notin rw_readers))
  /\ [][(lt_pc = "read_hid" /\ hid' = "Timeout")
          => (int = "Some" /\ int' = int /\ lt_pc' = "loop"
                /\ vendor_if_mutex' = vendor_if_mutex /\ pc' = pc)]_vars

\* a report read has timed out and the thread is at the head of the loop
\* with the Session still installed
C15_Witness ==
  hid = "Timeout" /\ lt_pc = "loop" /\ ready = "true" /\ ~loop_device

\* C16: report reads and transactions do not synchronise with each other:
\* the Lifecycle Thread never holds the transaction lock in the report loop;
\* while a report read is in progress every caller can take its next step
\* (enter an operation, take the free transaction lock, do its next
\* transfer); a report read can be started and can return whatever the
\* callers are doing; and the report is read by the Lifecycle Thread alone
C16_ReportsIndependent ==
  /\ Phase(lt_pc) = 7 => vendor_if_mutex # LT
  /\ lt_pc = "read_hid" =>
       \A c \in Callers :
         /\ (pc[c] \in {"idle", "done"} /\ registry) => \A o \in Ops : ENABLED Call(c, o)
         /\ (pc[c] = "lock" /\ vendor_if_mutex = NoOne) => ENABLED Lock(c)
         /\ pc[c] = "write_packet" => ENABLED WritePacket(c)
         /\ pc[c] = "write_data" => ENABLED WriteData(c)
         /\ pc[c] = "read_packet" => ENABLED ReadPacket(c)
         /\ pc[c] = "read_data" => ENABLED ReadData(c)
  /\ lt_pc = "int_read" => ENABLED LtIntRead
  /\ lt_pc = "read_hid" => ENABLED LtReadHid
  /\ \A c \in Callers : InTransact(c) => ENABLED CallerNext(c)

\* a report read is in progress while a caller is in the middle of its
\* transaction
C16_Witness ==
  lt_pc = "read_hid" /\ \E c \in Callers : vendor_if_mutex = c /\ pc[c] = "read_packet"

\* C17: transcieve does its transfers in the order packet write, payload
\* write (only for a non-empty payload), packet read, payload read (only for
\* a non-zero declared size).  Each step of a transaction leaves its position
\* (nothing is repeated); a failure ends the transaction at once, so after a
\* failed write no response has been read; and success comes from the read
\* phase only
C17_FixedOrder ==
  /\ [](\A c \in Callers : InTransact(c) => txres[c] = "none")
  /\ [][\A c \in Callers :
          /\ (pc'[c] = "write_packet" /\ pc[c] # pc'[c]) => pc[c] = "lock"
          /\ (pc'[c] = "write_data" /\ pc[c] # pc'[c])
               => (pc[c] = "write_packet" /\ DataLen(DataOf(op[c])) > 0)
          /\ (pc'[c] = "read_packet" /\ pc[c] # pc'[c])
               => \/ pc[c] = "write_data"
                  \/ pc[c] = "write_packet" /\ DataLen(DataOf(op[c])) = 0
          /\ (pc'[c] = "read_data" /\ pc[c] # pc'[c])
               => (pc[c] = "read_packet" /\ resp'[c][1].data_size > 0)
          /\ (InTransact(c) /\ pc'[c] = pc[c])
               => (resp'[c] = resp[c] /\ txres'[c] = txres[c])
          /\ (pc[c] \in {"write_packet", "write_data"} /\ pc'[c] \in {"done", "panicked"})
               => (txres'[c] \notin {"none", "ok"} /\ resp'[c] = <<>>)
          /\ (txres[c] = "none" /\ txres'[c] = "ok")
               => /\ pc[c] \in {"read_packet", "read_data"}
                  /\ pc[c] = "read_packet" => resp'[c][1].data_size = 0]_vars

\* a transaction with a payload has written packet and payload, has read a
\* response packet that declares a payload, and is about to read it
C17_Witness ==
  \E c \in Callers :
    /\ pc[c] = "read_data"
    /\ DataLen(DataOf(op[c])) > 0
    /\ resp[c][1].data_size > 0

\* C18: when the response packet declares n payload bytes, 0 < n < 512 KiB,
\* and the device supplies them, the transaction succeeds with a payload of
\* n bytes: at the payload read there is an outcome of the transfer that
\* delivers n bytes and makes _read return Ok
C18_PayloadRead ==
  \A c \in Callers :
    pc[c] = "read_data" =>
      \E r \in read_bulk(PayloadBufferLen(resp[c][1].data_size)) :
        r.ok /\ r.n = resp[c][1].data_size
          /\ ReadDataResult(r, resp[c][1].data_size) = "ok"

\* C19: display_file and delete_file transmit a packet with the opcode 0x07
\* (not the save-file opcode 0x03), data_size 0 and no payload; display_file
\* sets param_1 = page, param_2 = index, param_3 = file_id, delete_file sets
\* param_1 = page and param_3 = file_id
C19_FileOpcode ==
  \A c \in Callers :
    op[c].kind \in {"display_file", "delete_file"} =>
      /\ PacketOf(op[c]).request = 7
      /\ PacketOf(op[c]).request # SaveFile
      /\ PacketOf(op[c]).data_size = 0
      /\ DataOf(op[c]) = <<>>
      /\ PacketOf(op[c]).param_1 = op[c].page
      /\ PacketOf(op[c]).param_2 = op[c].index
      /\ PacketOf(op[c]).param_3 = op[c].arg

\* C20: save_file transacts a packet with the save-file opcode, param_1 =
\* page, param_3 = file_id and data_size = the length of the source; no
\* payload byte reaches the device before the packet is written, and once
\* the payload is written the bytes the device has taken are the bytes of
\* the source, one for one and in order; a source that cannot be read makes
\* the call return Err without a lock taken or a transfer issued, whatever
\* it gave before it failed
C20_SaveFile ==
  /\ [](\A c \in Callers :
          op[c].kind = "save_file" =>
            /\ ~op[c].src.err
            /\ PacketOf(op[c]).request = SaveFile
            /\ PacketOf(op[c]).page = 0
            /\ PacketOf(op[c]).param_1 = op[c].page
            /\ PacketOf(op[c]).param_2 = 0
            /\ PacketOf(op[c]).param_3 = op[c].arg
            /\ PacketOf(op[c]).data_size = SliceLen(op[c].src.bytes)
            /\ pc[c] \in {"lock", "write_packet", "write_data"} => sent[c] = <<>>
            /\ pc[c] \in {"read_packet", "read_data"} => sent[c] = op[c].src.bytes)
  /\ [][\A c \in Callers :
          (op[c].kind = "save_file" /\ WriteData(c) /\ op'[c] = op[c])
            => /\ sent'[c] = op[c].src.bytes
               /\ SliceLen(sent'[c]) = PacketOf(op[c]).data_size
               /\ pc'[c] = "read_packet"]_vars
  /\ [][\A c \in Callers : \A o \in Ops :
          (o.kind = "save_file" /\ o.src.err /\ Call(c, o))
            => /\ outcome'[c] = "Err" /\ pc'[c] = "done" /\ txres'[c] = "none"
               /\ op'[c] = NoOp /\ sent'[c] = <<>>
               /\ UNCHANGED <<rw_readers, vendor_if_mutex, int>>]_vars

\* save_file of the source with the bytes 9, 7 has written its packet and
\* its payload, the device has taken the two bytes in that order, and the
\* call awaits the response
C20_Witness ==
  \E c \in Callers :
    /\ op[c].kind = "save_file"
    /\ op[c].src.bytes = <<Run(1, 9), Run(1, 7)>>
    /\ sent[c] = <<Run(1, 9), Run(1, 7)>>
    /\ op[c].page = 1
    /\ op[c].arg = 3
    /\ pc[c] = "read_packet"

\* C26: when the Lifecycle Thread asks for the write side of the slot's lock
\* after a failed report read, it no longer holds the read guard it took for
\* that read
C26_ReadViewReleased ==
  lt_pc = "invalidate" => LT \notin rw_readers

\* C27: the factory-mode probe runs on a Session that is not in the slot:
\* while the probe is under way ready() is false and no caller is in a
\* transaction or holds a read guard for one; the run reaches the
\* installation only from the check of a probe response that has an error
\* field set; a probe that fails ends the run with the slot empty
C27_ProbeBeforeInstall ==
  /\ [](lt_pc \in {"probe", "probe_read", "probe_read_data", "probe_check"} =>
          /\ int = "None"
          /\ \A c \in Callers : ~InTransact(c) /\ pc[c] # "lock" /\ c \notin rw_readers)
  /\ [](vendor_if_mutex = LT => int = "None")
  /\ [][/\ (lt_pc' = "install" /\ lt_pc # "install")
             => /\ lt_pc = "probe_check"
                /\ response[1].header_error > 0 \/ response[1].request_error > 0
        /\ (lt_pc \in {"probe", "probe_read", "probe_read_data"}
              /\ lt_pc' = "panicked") => int' = "None"
        /\ lt_pc = "panicked" => (lt_pc' = "panicked" /\ int' = int)]_vars

\* the probe is in flight (written, response not yet read) and a caller has
\* been told that the device is not ready
C27_Witness ==
  /\ lt_pc = "probe_read"
  /\ vendor_if_mutex = LT
  /\ \E c \in Callers : outcome[c] = "false" /\ pc[c] = "done"

\* C21: a packet built from an opcode of the catalogue, an 8-bit page, a data
\* size, three parameters and error and info fields is encoded into 44 bytes,
\* every field big-endian, and decoding those bytes gives back every field;
\* bytes whose opcode is not in the catalogue decode to a packet whose
\* request() is an error carrying the number, while its error fields read as
\* sent
C21_RoundTrip ==
  /\ wire # <<>> => (Len(wire) = 44 /\ \A i \in 1..44 : wire[i] \in 0..255)
  /\ (packet # <<>> /\ wire # <<>>) =>
       /\ wire[21] = 0 /\ wire[22] = 0 /\ wire[23] = 0
       /\ wire[24] = packet[1].request
       /\ wire[8] = packet[1].page
       /\ wire[25] * 16777216 + wire[26] * 65536 + wire[27] * 256 + wire[28]
            = packet[1].param_1
  /\ (packet # <<>> /\ decoded # <<>>) =>
       /\ decoded[1] = packet[1]
       /\ request(decoded[1]) = [ok |-> TRUE, number |-> packet[1].request]
       /\ page(decoded[1]) = [ok |-> TRUE, value |-> packet[1].page]
  /\ (packet = <<>> /\ decoded # <<>>) =>
       /\ request(decoded[1]).ok <=> wire[24] = SetLed
       /\ request(decoded[1]).number
            = wire[21] * 16777216 + wire[22] * 65536 + wire[23] * 256 + wire[24]
       /\ decoded[1].header_error
            = wire[13] * 16777216 + wire[14] * 65536 + wire[15] * 256 + wire[16]
       /\ decoded[1].request_error
            = wire[37] * 16777216 + wire[38] * 65536 + wire[39] * 256 + wire[40]
       /\ decoded[1].page = 1

\* a packet with page 255 and a parameter of several bytes has been encoded
\* and decoded
C21_Witness ==
  /\ packet # <<>>
  /\ decoded # <<>>
  /\ packet[1].page = 255
  /\ packet[1].param_1 = 258
  /\ packet[1].request = SetLed
  /\ decoded[1].param_1 = 258

\* C22: has_error is true exactly when header_error > 0 or request_error > 0:
\* of a built packet by its two fields, of a decoded packet by the bytes of
\* the two fields on the wire, and whatever the other fields hold
C22_HasError ==
  /\ packet # <<>> =>
       (has_error(packet[1])
          <=> (packet[1].header_error > 0 \/ packet[1].request_error > 0))
  /\ decoded # <<>> =>
       /\ has_error(decoded[1])
            <=> \E i \in (13..16) \cup (37..40) : wire[i] # 0
       /\ has_error(decoded[1])
            = has_error(set_errors(ControlPacket_new(0), decoded[1].header_error,
                                   decoded[1].request_error))

\* decoded packets with both error fields set, and with none
C22_Witness ==
  /\ decoded # <<>>
  /\ decoded[1].header_error > 0
  /\ decoded[1].request_error > 0
  /\ decoded[1].param_1 > 0
  /\ has_error(decoded[1])

\* C23: a two-byte button report is decoded as a big-endian 16-bit bitmask:
\* bits 0-5 of the first byte are S1..S6, bit 6 left anticlockwise, bit 7 left
\* clockwise; bits 0-3 of the second byte are up, down, right anticlockwise,
\* right clockwise; 01 00 is S1 only, 80 00 left clockwise only, 00 0F the
\* four right-side bits, 00 00 nothing; a report with reserved bits set is
\* decoded like the same report without them
C23_ButtonDecode ==
  /\ buttons = <<>> => ENABLED DecodeButtons
  /\ buttons # <<>> =>
       LET hi == hid_buffer[1]
           lo == hid_buffer[2]
           b == buttons[1]
           Bit(byte, i) == (byte \div (2 ^ i)) % 2 = 1
       IN /\ b.bits = hi * 256 + lo
          /\ ("S1" \in Pressed(b)) = Bit(hi, 0)
          /\ ("S2" \in Pressed(b)) = Bit(hi, 1)
          /\ ("S3" \in Pressed(b)) = Bit(hi, 2)
          /\ ("S4" \in Pressed(b)) = Bit(hi, 3)
          /\ ("S5" \in Pressed(b)) = Bit(hi, 4)
          /\ ("S6" \in Pressed(b)) = Bit(hi, 5)
          /\ ("LEFT_ANTICLOCKWISE" \in Pressed(b)) = Bit(hi, 6)
          /\ ("LEFT_CLOCKWISE" \in Pressed(b)) = Bit(hi, 7)
          /\ ("UP" \in Pressed(b)) = Bit(lo, 0)
          /\ ("DOWN" \in Pressed(b)) = Bit(lo, 1)
          /\ ("RIGHT_ANTICLOCKWISE" \in Pressed(b)) = Bit(lo, 2)
          /\ ("RIGHT_CLOCKWISE" \in Pressed(b)) = Bit(lo, 3)
          /\ hid_buffer = <<1, 0>> => Pressed(b) = {"S1"}
          /\ hid_buffer = <<128, 0>> => Pressed(b) = {"LEFT_CLOCKWISE"}
          /\ hid_buffer = <<0, 15>> =>
               Pressed(b) = {"UP", "DOWN", "RIGHT_ANTICLOCKWISE", "RIGHT_CLOCKWISE"}
          /\ hid_buffer = <<0, 0>> => Pressed(b) = {}
          /\ Pressed(b) = Pressed(Buttons_from(U16_get(<<hi, lo % 16>>)))

\* a report with the left-clockwise bit and all four reserved bits has been
\* decoded
C23_Witness ==
  /\ buttons # <<>>
  /\ hid_buffer = <<128, 240>>
  /\ Pressed(buttons[1]) = {"LEFT_CLOCKWISE"}

\* the entry point of host thread c returns to the host in this step
ReturnsFrom(c) ==
  /\ shim_pc[c] \in {"called", "init", "enumerate", "op"}
  /\ shim_pc'[c] = "out"

\* the call of host thread c ends in this step, by a return or by a panic
Ends(c) ==
  /\ shim_pc[c] \in {"called", "init", "enumerate", "op"}
  /\ shim_pc'[c] \in {"out", "panicking", "panicked"}

\* C24: an entry point that needs the registry returns E_HANDLE without
\* touching a device exactly when the library is not initialized, and every
\* call of Deinitialize, however it ends, leaves the library uninitialized
C24_InitBeforeUse ==
  [][\A c \in Callers :
       /\ (ReturnsFrom(c) /\ entry[c].name \in StateEntries) =>
            ((hresult' = "E_HANDLE" /\ UNCHANGED coreVars) <=> state = "None")
       /\ (Ends(c) /\ entry[c].name = "Deinitialize") => state' = "None"]_vars

\* C25: DirectOutput_Initialize called on an initialized library returns
\* S_OK and leaves the registry, its displays and its handlers in place;
\* DirectOutput_Deinitialize called on an uninitialized library returns S_OK
\* and changes nothing
C25_ReinitIdempotent ==
  [][\A c \in Callers :
       /\ (entry[c].name = "Initialize" /\ state = "Some"
             /\ shim_pc[c] \in {"called", "init"} /\ shim_pc'[c] # shim_pc[c]) =>
            /\ shim_pc'[c] \in {"init", "out"}
            /\ shim_pc'[c] = "out" => hresult' = "S_OK"
            /\ UNCHANGED <<state, displays, handlers, registry>>
       /\ (entry[c].name = "Deinitialize" /\ state = "None"
             /\ shim_pc[c] = "called" /\ shim_pc'[c] # shim_pc[c]) =>
            /\ shim_pc'[c] = "out"
            /\ hresult' = "S_OK"
            /\ UNCHANGED <<state, displays, handlers, registry, coreVars>>]_vars

\* C28: an entry point whose get_display found the display ready runs its
\* operation on an installed Session, also when the Lifecycle Thread sets
\* about clearing the slot between that check and the operation's own read
\* of the slot: the read of the slot returns, the expect on the slot does
\* not panic, and so the guard of STATE is given back and later entry
\* points get it
C28_OperationOnSlot ==
  \A c \in Callers :
    shim_pc[c] = "op" =>
      /\ state_lock = c
      /\ int = "Some"
      /\ ~(pc[c] = "panicked" /\ txres[c] = "none")
      /\ pc[c] # "blocked"

\* C29: DirectOutput_Enumerate holds the guard of STATE from its lock to its
\* return, the callback included, and calls the callback once per address
\* of the registry; an entry point called from inside the callback never
\* returns: it stays at STATE.lock() or panics there
C29_EnumerateHoldsLock ==
  /\ [](\A c \in Callers :
          shim_pc[c] \in {"enumerate", "callback", "nested", "blocked"} =>
            state_lock = c)
  /\ [][\A c \in Callers :
          /\ shim_pc[c] = "nested" => shim_pc'[c] \in {"nested", "blocked", "panicking"}
          /\ (shim_pc[c] = "nested" /\ shim_pc'[c] # "nested") => hresult' = hresult
          /\ shim_pc[c] = "blocked" => shim_pc'[c] = "blocked"
          /\ shim_pc[c] \in {"callback", "nested", "blocked"} =>
               UNCHANGED <<state, displays, handlers>>
          /\ (shim_pc[c] = "enumerate" /\ shim_pc'[c] = "out") =>
               /\ hresult' = "S_OK"
               /\ Len(cb_seq[c]) = Cardinality(displays)
               /\ {cb_seq[c][i] : i \in 1..Len(cb_seq[c])}
                    = {a[1] * 256 + a[2] : a \in displays}]_vars

\* a callback of Enumerate has called an entry point, which stays at the
\* lock of STATE, and the call of another thread waits for the guard
C29_Witness ==
  \E c \in Callers :
    /\ shim_pc[c] = "blocked"
    /\ state_lock = c
    /\ cb_seq[c] = <<258>>
    /\ \E d \in Callers \ {c} : shim_pc[d] = "called"

====
